---- MODULE Spec2Model ----
(***************************************************************************)
(* A model of memote's syntax support functions (memote/support/syntax.py) *)
(* and of the basic and biomass test modules of its suite                  *)
(* (memote/suite/tests/test_basic.py, test_biomass.py).                    *)
(*                                                                         *)
(* Identifiers are sequences of one-character strings, so that the regular *)
(* expressions and prefix tests of the code are computed, not assumed.     *)
(* Numbers with a fractional part are fixed-point integers; the unit is    *)
(* stated where they are defined.                                          *)
(***************************************************************************)
EXTENDS Integers, Sequences, FiniteSets, TLC

VARIABLES
    check,       \* the selected test function or support function family
    model,       \* the metabolic model under test (read-only part)
    bounds,      \* model.exchanges' (lower, upper) bounds, by exchange reaction
    contexts,    \* cobra.Model._contexts: the stack of undo histories
    annotation,  \* <test function>.annotation of the selected check
    pc,          \* position of the running check: "idle" or "scope"
    run,         \* the parametrized case in progress
    report,      \* the runner's outcome per executed case
    result       \* return values of the support functions called so far

vars == <<check, model, bounds, contexts, annotation, pc, run, report, result>>

\* Python's None among strings; an optional value of another type is <<>>
\* when unset and <<v>> when set to v.
None == "None"
Unset == <<>>
Some(v) == <<v>>

(***************************************************************************)
(* Bounds of the model.                                                    *)
(***************************************************************************)
MaxIdLen == 4        \* longest reaction identifier
MaxMetIdLen == 5     \* longest metabolite identifier
MaxBiomass == 2      \* biomass reactions a model can hold
MaxExchanges == 2    \* exchange reactions of the model
MaxPrecursors == 2   \* precursors of a biomass reaction
MaxWeightDev == 4    \* summed weights range over 1.0 +- MaxWeightDev * 0.000335
MaxRateDev == 1      \* growth rates range MaxRateDev steps around 0 and the cap
MaxEntities == 3     \* genes, reactions and metabolites of a model, each
MaxTagIdLen == 3     \* longest reaction identifier of the compartment tag functions

(***************************************************************************)
(* Characters and identifiers.                                             *)
(***************************************************************************)
UpperCase == {"A","B","C","D","E","F","G","H","I","J","K","L","M",
              "N","O","P","Q","R","S","T","U","V","W","X","Y","Z"}
LowerCase == {"a","b","c","d","e","f","g","h","i","j","k","l","m",
              "n","o","p","q","r","s","t","u","v","w","x","y","z"}
Digits == {"0","1","2","3","4","5","6","7","8","9"}
WordChars == UpperCase \cup LowerCase \cup Digits \cup {"_"}

\* All identifiers of 1..n characters over an alphabet.
Ids(alphabet, n) == UNION {[1..k -> alphabet] : k \in 1..n}

(***************************************************************************)
(* Regular expressions: the fragment of Python's re the code uses.         *)
(* A pattern is <<"set", S>> (one character of S), <<"cat", a, b>>,        *)
(* <<"alt", a, b>> or <<"star", a>>.  Ends(re, s, i) is the set of         *)
(* positions at which a match of re that starts at position i of s can     *)
(* end; lazy and greedy quantifiers have the same set.                     *)
(***************************************************************************)
RECURSIVE Ends(_, _, _)
RECURSIVE StarEnds(_, _, _, _)
Ends(re, s, i) ==
    CASE re[1] = "set" ->
            IF i <= Len(s) /\ s[i] \in re[2] THEN {i + 1} ELSE {}
      [] re[1] = "cat" ->
            UNION {Ends(re[3], s, j) : j \in Ends(re[2], s, i)}
      [] re[1] = "alt" ->
            Ends(re[2], s, i) \cup Ends(re[3], s, i)
      [] re[1] = "star" ->
            StarEnds(re[2], s, {i}, {i})

StarEnds(re, s, frontier, acc) ==
    LET nxt == UNION {Ends(re, s, j) : j \in frontier} \ acc
    IN  IF nxt = {} THEN acc ELSE StarEnds(re, s, nxt, acc \cup nxt)

Chr(c) == <<"set", {c}>>
Cat(a, b) == <<"cat", a, b>>
Alt(a, b) == <<"alt", a, b>>
Star(a) == <<"star", a>>
Plus(a) == Cat(a, Star(a))

\* re.match(pattern, string): a match anchored at the start of the string,
\* ending anywhere.
re_match(pattern, s) == Ends(pattern, s, 1) # {}

\* "[A-Z0-9]+\w*?<tag>\w*?" with the tag given as a pattern.
TagPattern(tag) ==
    Cat(Plus(<<"set", UpperCase \cup Digits>>),
        Cat(Star(<<"set", WordChars>>),
            Cat(tag, Star(<<"set", WordChars>>))))

\* "[A-Z0-9]+\w*?t\w*?"
TransportTagPattern == TagPattern(Chr("t"))

\* "[A-Z0-9]+\w*?abc\w*?"
AbcTagPattern == TagPattern(Cat(Chr("a"), Cat(Chr("b"), Chr("c"))))

\* "^([a-z0-9]|Z|E|L|D|ACP|S|R)+_\w+"
UpperCaseMetPattern ==
    Cat(Plus(Alt(<<"set", LowerCase \cup Digits \cup {"Z","E","L","D","S","R"}>>,
                 Cat(Chr("A"), Cat(Chr("C"), Chr("P"))))),
        Cat(Chr("_"), Plus(<<"set", WordChars>>)))

\* str.startswith(prefix)
startswith(s, prefix) ==
    /\ Len(prefix) <= Len(s)
    /\ \A i \in 1..Len(prefix) : s[i] = prefix[i]

(***************************************************************************)
(* Helper queries of memote.support.helpers, which the syntax functions    *)
(* call.  A reaction is a record; `conserved` says that one of its         *)
(* metabolites takes part on both sides with an unchanged formula, and     *)
(* `atp_adp` that its stoichiometry holds an ATP and an ADP metabolite.    *)
(***************************************************************************)
find_transport_reactions(m) ==
    {rxn \in m.reactions : Cardinality(rxn.compartments) >= 2 /\ rxn.conserved}

find_atp_adp_converting_reactions(m) ==
    {rxn \in m.reactions : rxn.atp_adp}

\* cobra's Model.exchanges: the boundary reactions of the model.
exchanges(m) == {rxn \in m.reactions : rxn.boundary}

(***************************************************************************)
(* memote/support/syntax.py.  A returned list is built from a set or from  *)
(* the model's reaction list without repetition; it is modelled by the set *)
(* of its elements.                                                        *)
(***************************************************************************)
non_abc_transporters(m) ==
    find_transport_reactions(m) \ find_atp_adp_converting_reactions(m)

abc_transporters(m) ==
    find_transport_reactions(m) \cap find_atp_adp_converting_reactions(m)

find_reaction_tag_transporter(m) ==
    {rxn \in non_abc_transporters(m) : ~ re_match(TransportTagPattern, rxn.id)}

find_abc_tag_transporter(m) ==
    {rxn \in abc_transporters(m) : ~ re_match(AbcTagPattern, rxn.id)}

find_upper_case_mets(m) ==
    {met \in m.metabolites : ~ re_match(UpperCaseMetPattern, met.id)}

DemandRuleNoCompartment(rxn) == ~ startswith(rxn.id, <<"D", "M", "_">>)

DemandRule(rxn) ==
    "e" \notin rxn.compartments /\ ~ startswith(rxn.id, <<"D", "M", "_">>)

ExchangeRule(rxn) ==
    "e" \in rxn.compartments /\ ~ startswith(rxn.id, <<"E", "X", "_">>)

find_untagged_demand_rxns(m) == {rxn \in exchanges(m) : DemandRule(rxn)}

find_untagged_exchange_rxns(m) == {rxn \in exchanges(m) : ExchangeRule(rxn)}

(***************************************************************************)
(* Calls of the support functions.  Each call is made at most once on the  *)
(* model under test and its return value is kept in `result`.              *)
(***************************************************************************)
NoRun == [reaction_id |-> 0, entry_bounds |-> <<>>]

Quiet ==
    /\ bounds = <<>>
    /\ contexts = <<>>
    /\ annotation = [data |-> Unset, message |-> Unset]
    /\ pc = "idle"
    /\ run = NoRun
    /\ report = <<>>

Call(family, name, value) ==
    /\ check = family
    /\ name \notin DOMAIN result
    /\ result' = result @@ (name :> value)
    /\ UNCHANGED <<check, model, bounds, contexts, annotation, pc, run, report>>

Reaction(id, comps, conserved, atp_adp, boundary) ==
    [id |-> id, compartments |-> comps, conserved |-> conserved,
     atp_adp |-> atp_adp, boundary |-> boundary]

\* Transport tagging: one reaction, any identifier over TransportChars.
TransportChars == {"A", "a", "b", "c", "t", "-"}

TransportModels ==
    {[reactions |-> {Reaction(id, comps, cons, atp, FALSE)}, metabolites |-> {}] :
        id \in Ids(TransportChars, MaxIdLen),
        comps \in {{"c"}, {"c", "e"}},
        cons \in BOOLEAN, atp \in BOOLEAN}

InitTransport ==
    /\ check = "transport_tag"
    /\ model \in TransportModels
    /\ result = <<>>
    /\ Quiet

CallReactionTagTransporter ==
    Call("transport_tag", "find_reaction_tag_transporter",
         find_reaction_tag_transporter(model))

CallAbcTagTransporter ==
    Call("transport_tag", "find_abc_tag_transporter",
         find_abc_tag_transporter(model))

NextTransport == CallReactionTagTransporter \/ CallAbcTagTransporter

SpecTransport == InitTransport /\ [][NextTransport]_vars

\* Metabolite casing: one metabolite, any identifier over MetChars.
MetChars == {"a", "_", "D", "A", "C", "P"}

MetModels ==
    {[reactions |-> {}, metabolites |-> {[id |-> id]}] :
        id \in Ids(MetChars, MaxMetIdLen)}

InitMetCase ==
    /\ check = "met_case"
    /\ model \in MetModels
    /\ result = <<>>
    /\ Quiet

CallUpperCaseMets ==
    Call("met_case", "find_upper_case_mets", find_upper_case_mets(model))

NextMetCase == CallUpperCaseMets

SpecMetCase == InitMetCase /\ [][NextMetCase]_vars

\* Exchange and demand tagging: one reaction, any identifier over
\* BoundaryChars.  A boundary reaction has a single metabolite, hence a
\* single compartment.
BoundaryChars == {"E", "X", "D", "M", "_", "a"}

BoundaryModels ==
    {[reactions |-> {Reaction(id, comps, FALSE, FALSE, bnd)}, metabolites |-> {}] :
        id \in Ids(BoundaryChars, MaxIdLen),
        comps \in {{"c"}, {"e"}, {"p"}},
        bnd \in BOOLEAN}

InitBoundary ==
    /\ check = "boundary_tag"
    /\ model \in BoundaryModels
    /\ result = <<>>
    /\ Quiet

CallUntaggedDemandRxns ==
    Call("boundary_tag", "find_untagged_demand_rxns",
         find_untagged_demand_rxns(model))

CallUntaggedExchangeRxns ==
    Call("boundary_tag", "find_untagged_exchange_rxns",
         find_untagged_exchange_rxns(model))

NextBoundary == CallUntaggedDemandRxns \/ CallUntaggedExchangeRxns

SpecBoundary == InitBoundary /\ [][NextBoundary]_vars

(***************************************************************************)
(* Compartment tags: find_mistagged_reaction_compartment,                  *)
(* find_rxn_id_compartment_suffix and find_rxn_id_suffix_compartment.      *)
(***************************************************************************)
\* A call of a support function ends by a return or by an exception.
Returned(value) == [exception |-> None, at |-> None, returned |-> value]

Raised(exception, at) == [exception |-> exception, at |-> at, returned |-> Unset]

\* x in s, for strings: sub is a contiguous run of the characters of s.
In(sub, s) ==
    \E i \in 1..(Len(s) - Len(sub) + 1) :
        \A k \in 1..Len(sub) : s[i + k - 1] = sub[k]

\* str.lower()
UpperSeq ==
    <<"A","B","C","D","E","F","G","H","I","J","K","L","M",
      "N","O","P","Q","R","S","T","U","V","W","X","Y","Z">>

LowerSeq ==
    <<"a","b","c","d","e","f","g","h","i","j","k","l","m",
      "n","o","p","q","r","s","t","u","v","w","x","y","z">>

lower(s) ==
    [i \in 1..Len(s) |->
        IF s[i] \in UpperCase
        THEN LowerSeq[CHOOSE k \in 1..Len(UpperSeq) : UpperSeq[k] = s[i]]
        ELSE s[i]]

\* The pattern that matches exactly the characters of tok.
RECURSIVE Lit(_)
Lit(tok) ==
    IF Len(tok) = 1 THEN Chr(tok[1]) ELSE Cat(Chr(tok[1]), Lit(Tail(tok)))

\* COMPARTMENT_SUFFIX: compartment symbol -> identifier suffix, read from
\* data/compartments.csv when the module is imported.
COMPARTMENT_SUFFIX == [c |-> <<"c">>, e |-> <<"e">>, p |-> <<"p", "p">>]

\* The names bound in the module namespace of syntax.py: its imports, its
\* module-level assignments and its functions.
ModuleNames ==
    {"absolute_import", "logging", "re", "join", "dirname", "dict", "pd",
     "build_reaction_pattern_map", "find_atp_adp_converting_reactions",
     "find_transport_reactions",
     "LOGGER", "COMPARTMENTS", "REACTION_SUFFIX", "COMPARTMENT_SUFFIX",
     "find_mistagged_reaction_compartment", "find_rxn_id_compartment_suffix",
     "find_rxn_id_suffix_compartment", "find_reaction_tag_transporter",
     "find_abc_tag_transporter", "find_upper_case_mets",
     "find_untagged_demand_rxns", "find_untagged_exchange_rxns"}

\* The lookup of a global name succeeds or raises NameError.
Defined(name) == name \in ModuleNames

\* helpers.build_reaction_pattern_map: the identifier is matched against
\* letters and digits followed by the suffix of a compartment; the match
\* holds that suffix as its group "suffix"; no match is Unset (None).
SuffixMatches(id) ==
    {tok \in {COMPARTMENT_SUFFIX[sym] : sym \in DOMAIN COMPARTMENT_SUFFIX} :
        \E j \in Ends(Plus(<<"set", UpperCase \cup LowerCase \cup Digits>>), id, 1) :
            (Len(id) + 1) \in Ends(Lit(tok), id, j)}

build_reaction_pattern_map(m) ==
    [rxn \in m.reactions |->
        IF SuffixMatches(rxn.id) = {} THEN Unset
        ELSE Some(CHOOSE tok \in SuffixMatches(rxn.id) :
                     \A other \in SuffixMatches(rxn.id) : Len(other) <= Len(tok))]

\* One pass of the loop of find_mistagged_reaction_compartment: TRUE when rxn
\* is appended to `wrong`, FALSE when one of the three `continue` is taken.
MistaggedCytosolToo(rxn, match) ==
    /\ match # Unset
    /\ ~ \E comp \in rxn.compartments : In(<<comp>>, match[1])

Mistagged(rxn, match) ==
    /\ match # Unset
    /\ rxn.compartments # {"c"}
    /\ ~ \E comp \in rxn.compartments : In(<<comp>>, match[1])

\* "[A-Z0-9]+\w*?{}\w*?".format(SUFFIX_MAP[suffix])
comp_pattern(suffix_map, suffix) == TagPattern(Lit(suffix_map[suffix]))

\* ('biomass' not in rxn.id.lower()) and (rxn not in transport_rxns and
\* rxn not in exchange_demand_rxns)
Candidate(m, rxn) ==
    /\ ~ In(<<"b", "i", "o", "m", "a", "s", "s">>, lower(rxn.id))
    /\ rxn \notin find_transport_reactions(m)
    /\ rxn \notin exchanges(m)

\* find_rxn_id_compartment_suffix.  Neither find_demand_and_exchange_reactions
\* nor SUFFIX_MAP is bound in the module, so the first of them to be looked
\* up ends the call; the rest of the body is what follows were they bound to
\* the boundary reactions and to the compartment table.
find_rxn_id_compartment_suffix(m, suffix) ==
    IF ~ Defined("find_demand_and_exchange_reactions")
    THEN Raised("NameError", "find_demand_and_exchange_reactions")
    ELSE IF ~ Defined("SUFFIX_MAP")
    THEN Raised("NameError", "SUFFIX_MAP")
    ELSE Returned({rxn \in m.reactions :
                      /\ suffix \in rxn.compartments
                      /\ Candidate(m, rxn)
                      /\ ~ re_match(comp_pattern(COMPARTMENT_SUFFIX, suffix), rxn.id)})

\* find_rxn_id_suffix_compartment, with the same two unbound names.
find_rxn_id_suffix_compartment(m, suffix) ==
    IF ~ Defined("find_demand_and_exchange_reactions")
    THEN Raised("NameError", "find_demand_and_exchange_reactions")
    ELSE IF ~ Defined("SUFFIX_MAP")
    THEN Raised("NameError", "SUFFIX_MAP")
    ELSE Returned({rxn \in m.reactions :
                      /\ re_match(comp_pattern(COMPARTMENT_SUFFIX, suffix), rxn.id)
                      /\ Candidate(m, rxn)
                      /\ suffix \notin rxn.compartments})

\* The model: one reaction with any identifier over CompartmentChars, any
\* compartments, transport or not, next to one of a few fixed reactions.
CompartmentChars == {"A", "c", "p"}

Companions ==
    {Reaction(<<"A", "c">>, {"c"}, FALSE, FALSE, FALSE),
     Reaction(<<"A", "c">>, {"p"}, FALSE, FALSE, FALSE),
     Reaction(<<"A", "c">>, {"c", "p"}, TRUE, FALSE, FALSE)}

CompartmentModels ==
    {[reactions |-> {Reaction(id, comps, cons, FALSE, FALSE), other},
      metabolites |-> {}] :
        id \in Ids(CompartmentChars, MaxTagIdLen),
        comps \in SUBSET DOMAIN COMPARTMENT_SUFFIX,
        cons \in BOOLEAN, other \in Companions}

InitCompartment ==
    /\ check = "compartment_tag"
    /\ model \in CompartmentModels
    /\ result = <<>>
    /\ Quiet

\* find_mistagged_reaction_compartment(model) up to the loop: both optional
\* arguments are None and are computed from the model.
MistaggedEnter ==
    /\ check = "compartment_tag"
    /\ pc = "idle"
    /\ "find_mistagged_reaction_compartment" \notin DOMAIN result
    /\ LET reaction_match == build_reaction_pattern_map(model)
           transport_reactions == find_transport_reactions(model)
       IN  run' = [reaction_match |-> reaction_match,
                   todo |-> DOMAIN reaction_match \ transport_reactions,
                   wrong |-> <<>>]
    /\ pc' = "loop"
    /\ UNCHANGED <<check, model, bounds, contexts, annotation, report, result>>

\* One iteration: for rxn in set(reaction_match) - set(transport_reactions),
\* in the order the set yields.
MistaggedStep ==
    /\ pc = "loop"
    /\ \E rxn \in run.todo :
          run' = [run EXCEPT
                    !.todo = @ \ {rxn},
                    !.wrong = IF Mistagged(rxn, run.reaction_match[rxn])
                              THEN Append(@, rxn) ELSE @]
    /\ UNCHANGED <<check, model, bounds, contexts, annotation, pc, report, result>>

\* return wrong
MistaggedReturn ==
    /\ pc = "loop"
    /\ run.todo = {}
    /\ result' = result @@
          ("find_mistagged_reaction_compartment" :> Returned(run.wrong))
    /\ pc' = "idle"
    /\ run' = NoRun
    /\ UNCHANGED <<check, model, bounds, contexts, annotation, report>>

CallRxnIdCompartmentSuffix ==
    /\ pc = "idle"
    /\ Call("compartment_tag", "find_rxn_id_compartment_suffix",
            [suffix \in DOMAIN COMPARTMENT_SUFFIX |->
                find_rxn_id_compartment_suffix(model, suffix)])

CallRxnIdSuffixCompartment ==
    /\ pc = "idle"
    /\ Call("compartment_tag", "find_rxn_id_suffix_compartment",
            [suffix \in DOMAIN COMPARTMENT_SUFFIX |->
                find_rxn_id_suffix_compartment(model, suffix)])

NextCompartment ==
    \/ MistaggedEnter
    \/ MistaggedStep
    \/ MistaggedReturn
    \/ CallRxnIdCompartmentSuffix
    \/ CallRxnIdSuffixCompartment

SpecCompartment == InitCompartment /\ [][NextCompartment]_vars

(***************************************************************************)
(* The test runner's view of one executed case.  `at` is the place of the  *)
(* statement that raised, `message` what the AssertionError carries and    *)
(* `returned` the value the support function returned in that case.        *)
(***************************************************************************)
Passed(returned) ==
    [outcome |-> "passed", exception |-> None, at |-> None,
     message |-> Unset, returned |-> returned]

Failed(at, message, returned) ==
    [outcome |-> "failed", exception |-> "AssertionError", at |-> at,
     message |-> Some(message), returned |-> returned]

Errored(exception, at, returned) ==
    [outcome |-> "error", exception |-> exception, at |-> at,
     message |-> Unset, returned |-> returned]

\* assert condition
AssertBare(condition, at, returned) ==
    IF condition THEN Passed(returned)
    ELSE [outcome |-> "failed", exception |-> "AssertionError", at |-> at,
          message |-> Unset, returned |-> returned]

\* assert condition, message
AssertThat(condition, message, returned) ==
    IF condition THEN Passed(returned) ELSE Failed("threshold", message, returned)

\* ann[field][key] = value: an item assignment in the dict the annotation holds.
SetItemFresh(ann, field, key, value) == [ann EXCEPT ![field] = (key :> value)]

SetItem(ann, field, key, value) == [ann EXCEPT ![field] = (key :> value) @@ @]

\* wrapper.fill("...".format(args)): the text is a function of the template
\* and of the values formatted into it.
Message(template, args) == [template |-> template, args |-> args]

(***************************************************************************)
(* memote/suite/tests/test_biomass.py.                                     *)
(* The weight of a biomass reaction is counted in units of 1e-6, a growth  *)
(* rate in units of 1e-4.                                                  *)
(***************************************************************************)
One == 1000000           \* 1.0
Atol == 1000             \* atol=1e-03
RtolInverse == 100000    \* numpy's default rtol=1e-05, as 1 / rtol
GrowthCap == 103972      \* 10.3972
WideLower == -1000
WideUpper == 1000

Abs(x) == IF x < 0 THEN -x ELSE x

\* numpy.isclose(a, b, atol=atol) with the default rtol:
\* |a - b| <= atol + rtol * |b|, both sides multiplied by 1 / rtol.
np_isclose(a, b, atol) ==
    Abs(a - b) * RtolInverse <= atol * RtolInverse + Abs(b)

BiomassChecks ==
    {"test_biomass_presence", "test_biomass_consistency",
     "test_biomass_default_production",
     "test_biomass_precursors_default_production",
     "test_biomass_precursors_open_production",
     "test_gam_in_biomass", "test_fast_growth_default"}

\* @annotate(title=..., type=..., data=dict(), message=dict()) for the
\* parametrized checks; data and message are unset for test_biomass_presence.
BiomassAnnotation(name) ==
    IF name = "test_biomass_presence"
    THEN [data |-> Unset, message |-> Unset]
    ELSE [data |-> <<>>, message |-> <<>>]

Weights == {One + 335 * k : k \in (0 - MaxWeightDev)..MaxWeightDev}
GrowthRates ==
    {k : k \in (0 - MaxRateDev)..MaxRateDev}
        \cup {GrowthCap + k : k \in (0 - MaxRateDev)..MaxRateDev}
Precursors == 1..MaxPrecursors
Exchanges == 1..MaxExchanges
BoundChoices == {<<0, 1000>>, <<-10, 1000>>, <<-1000, 1000>>}

InitBiomass ==
    /\ check \in BiomassChecks
    /\ model \in {[biomass_ids |-> ids] : ids \in SUBSET (1..MaxBiomass)}
    /\ bounds \in [Exchanges -> BoundChoices]
    /\ contexts = <<>>
    /\ annotation = BiomassAnnotation(check)
    /\ pc = "idle"
    /\ run = NoRun
    /\ report = <<>>
    /\ result = <<>>

\* A parametrized case that has not been executed yet.  The case of a check
\* without parameters is numbered 0.
Case(name, reaction_id) ==
    /\ check = name
    /\ pc = "idle"
    /\ reaction_id \in model.biomass_ids
    /\ reaction_id \notin DOMAIN report

test_biomass_presence ==
    /\ check = "test_biomass_presence"
    /\ pc = "idle"
    /\ 0 \notin DOMAIN report
    /\ LET data == model.biomass_ids
           message == Message("test_biomass_presence",
                              <<Cardinality(data), data>>)
       IN  /\ annotation' = [annotation EXCEPT !.data = Some(data),
                                               !.message = Some(message)]
           /\ report' = report @@
                (0 :> AssertThat(Cardinality(data) > 0, message, data))
    /\ UNCHANGED <<check, model, bounds, contexts, pc, run, result>>

\* The body shared by the parametrized checks that call one support function
\* and assert on its value: data[reaction_id], message[reaction_id], assert.
RecordAndAssert(name, reaction_id, value, passes) ==
    LET ann1 == SetItem(annotation, "data", reaction_id, value)
        message == Message(name, <<reaction_id, ann1.data[reaction_id]>>)
        ann2 == SetItem(ann1, "message", reaction_id, message)
    IN  /\ annotation' = ann2
        /\ report' = report @@
              (reaction_id :> AssertThat(passes, ann2.message[reaction_id], value))

ConsistencyPasses(weight) == np_isclose(weight, One, Atol)

test_biomass_consistency(reaction_id) ==
    /\ Case("test_biomass_consistency", reaction_id)
    /\ \E weight \in Weights :
          RecordAndAssert("test_biomass_consistency", reaction_id, weight,
                          ConsistencyPasses(weight))
    /\ UNCHANGED <<check, model, bounds, contexts, pc, run, result>>

DefaultProductionPasses(rate) == rate > 0

test_biomass_default_production(reaction_id) ==
    /\ Case("test_biomass_default_production", reaction_id)
    /\ \E rate \in GrowthRates :
          RecordAndAssert("test_biomass_default_production", reaction_id, rate,
                          DefaultProductionPasses(rate))
    /\ UNCHANGED <<check, model, bounds, contexts, pc, run, result>>

\* find_blocked_biomass_precursors either returns some of the precursors or
\* raises; a raise leaves the annotation as it was.
BlockedOutcomes ==
    {[raised |-> FALSE, value |-> blocked] : blocked \in SUBSET Precursors}
        \cup {[raised |-> TRUE, value |-> {}]}

test_biomass_precursors_default_production(reaction_id) ==
    /\ Case("test_biomass_precursors_default_production", reaction_id)
    /\ \E blocked \in BlockedOutcomes :
          IF blocked.raised
          THEN /\ report' = report @@
                    (reaction_id :> Errored("Exception", "helper", Unset))
               /\ UNCHANGED annotation
          ELSE RecordAndAssert("test_biomass_precursors_default_production",
                               reaction_id, blocked.value,
                               Cardinality(blocked.value) = 0)
    /\ UNCHANGED <<check, model, bounds, contexts, pc, run, result>>

test_gam_in_biomass(reaction_id) ==
    /\ Case("test_gam_in_biomass", reaction_id)
    /\ \E gam \in BOOLEAN :
          RecordAndAssert("test_gam_in_biomass", reaction_id, gam, gam)
    /\ UNCHANGED <<check, model, bounds, contexts, pc, run, result>>

FastGrowthPassesBelow(rate) == rate < GrowthCap

FastGrowthPasses(rate) == rate <= GrowthCap

test_fast_growth_default(reaction_id) ==
    /\ Case("test_fast_growth_default", reaction_id)
    /\ \E rate \in GrowthRates :
          RecordAndAssert("test_fast_growth_default", reaction_id, rate,
                          FastGrowthPasses(rate))
    /\ UNCHANGED <<check, model, bounds, contexts, pc, run, result>>

(***************************************************************************)
(* The complete-medium check.  `with model:` pushes an undo history on the *)
(* model's context stack; a bounds assignment made while a history is open *)
(* records the old bounds in it; leaving the block, normally or by an      *)
(* exception, pops the history and undoes its records, last first.         *)
(***************************************************************************)
ModelEnter(st) == [st EXCEPT !.contexts = Append(@, <<>>)]

SetBounds(st, exchange, new) ==
    LET top == Len(st.contexts)
    IN  IF top = 0
        THEN [st EXCEPT !.bounds[exchange] = new]
        ELSE [st EXCEPT !.bounds[exchange] = new,
                        !.contexts[top] =
                            Append(@, <<exchange, st.bounds[exchange]>>)]

RECURSIVE Undo(_, _)
Undo(b, history) ==
    IF history = <<>> THEN b
    ELSE LET last == history[Len(history)]
         IN  Undo([b EXCEPT ![last[1]] = last[2]],
                  SubSeq(history, 1, Len(history) - 1))

ModelExit(st) ==
    LET top == Len(st.contexts)
    IN  [bounds |-> Undo(st.bounds, st.contexts[top]),
         contexts |-> SubSeq(st.contexts, 1, top - 1)]

\* for exchange in model.exchanges: exchange.bounds = (-1000, 1000)
RECURSIVE WidenFrom(_, _)
WidenFrom(st, exchange) ==
    IF exchange > MaxExchanges THEN st
    ELSE WidenFrom(SetBounds(st, exchange, <<WideLower, WideUpper>>), exchange + 1)

WidenExchanges(st) == WidenFrom(st, 1)

\* The end of the with block: the history is undone whether the block ended
\* normally or by an exception.
ScopeExitUnlessRaised(st, raised) ==
    IF raised THEN [st EXCEPT !.contexts = SubSeq(@, 1, Len(@) - 1)]
    ELSE ModelExit(st)

ScopeExit(st, raised) == ModelExit(st)

\* Entering the with block and widening every exchange.
OpenProductionEnter(reaction_id) ==
    /\ Case("test_biomass_precursors_open_production", reaction_id)
    /\ LET st == WidenExchanges(ModelEnter([bounds |-> bounds,
                                            contexts |-> contexts]))
       IN  /\ bounds' = st.bounds
           /\ contexts' = st.contexts
    /\ pc' = "scope"
    /\ run' = [reaction_id |-> reaction_id, entry_bounds |-> bounds]
    /\ UNCHANGED <<check, model, annotation, report, result>>

\* The call inside the block, the end of the block and the rest of the check.
OpenProductionFinish ==
    /\ check = "test_biomass_precursors_open_production"
    /\ pc = "scope"
    /\ \E blocked \in BlockedOutcomes :
          LET st == ScopeExit([bounds |-> bounds, contexts |-> contexts],
                              blocked.raised)
          IN  /\ bounds' = st.bounds
              /\ contexts' = st.contexts
              /\ IF blocked.raised
                 THEN /\ report' = report @@
                           (run.reaction_id :> Errored("Exception", "helper", Unset))
                      /\ UNCHANGED annotation
                 ELSE RecordAndAssert("test_biomass_precursors_open_production",
                                      run.reaction_id, blocked.value,
                                      Cardinality(blocked.value) = 0)
    /\ pc' = "idle"
    /\ UNCHANGED <<check, model, run, result>>

\* @pytest.mark.parametrize("reaction_id", BIOMASS_IDS): the start of the
\* case of one reaction id.
StartCase(reaction_id) ==
    \/ test_biomass_consistency(reaction_id)
    \/ test_biomass_default_production(reaction_id)
    \/ test_biomass_precursors_default_production(reaction_id)
    \/ OpenProductionEnter(reaction_id)
    \/ test_gam_in_biomass(reaction_id)
    \/ test_fast_growth_default(reaction_id)

NextBiomass ==
    \/ test_biomass_presence
    \/ \E reaction_id \in 1..MaxBiomass : StartCase(reaction_id)
    \/ OpenProductionFinish

SpecBiomass == InitBiomass /\ [][NextBiomass]_vars

(***************************************************************************)
(* The two precursor checks in one session.  pytest runs the cases of      *)
(* test_biomass_precursors_default_production and then those of            *)
(* test_biomass_precursors_open_production on the same model; what the     *)
(* first recorded is kept in `result` when the second starts.              *)
(*                                                                         *)
(* The flux problem behind find_blocked_biomass_precursors: every          *)
(* precursor is made from the nutrient of one exchange reaction, the       *)
(* model may drain a fixed amount of a nutrient (a reaction with a         *)
(* positive lower bound, such as a maintenance reaction), and at steady    *)
(* state the uptake of a nutrient equals what is drained and demanded.     *)
(***************************************************************************)
MediumBoundChoices == BoundChoices \cup {<<-2000, 1000>>}

MaintenanceChoices == {0, 1500}

\* Exchange k has a flux within its bounds that covers the drain and leaves
\* `demand` for a precursor (an uptake is a negative exchange flux).
Balanced(m, b, k, demand) ==
    LET flux == 0 - (m.maintenance[k] + demand)
    IN  b[k][1] <= flux /\ flux <= b[k][2]

\* The optimization with a demand on the precursor as objective: the largest
\* demand is met at the lower bound of the exchange; the problem has a
\* solution and its optimum is positive.
Producible(m, b, precursor) ==
    LET k == m.source[precursor]
        optimum == (0 - b[k][1]) - m.maintenance[k]
    IN  /\ \A other \in Exchanges \ {k} : Balanced(m, b, other, 0)
        /\ Balanced(m, b, k, optimum)
        /\ optimum > 0

\* biomass.find_blocked_biomass_precursors(reaction, model): the precursors
\* of the reaction whose production cannot be positive.
find_blocked_biomass_precursors(m, b) ==
    {precursor \in Precursors : ~ Producible(m, b, precursor)}

InitMedium ==
    /\ check = "test_biomass_precursors_default_production"
    /\ model \in {[biomass_ids |-> ids, source |-> source,
                   maintenance |-> maintenance] :
                     ids \in SUBSET (1..MaxBiomass),
                     source \in [Precursors -> Exchanges],
                     maintenance \in [Exchanges -> MaintenanceChoices]}
    /\ bounds \in [Exchanges -> MediumBoundChoices]
    /\ contexts = <<>>
    /\ annotation = BiomassAnnotation(check)
    /\ pc = "idle"
    /\ run = NoRun
    /\ report = <<>>
    /\ result = <<>>

\* A case of the default-medium check on the model as it is.
DefaultMediumCase ==
    \E reaction_id \in 1..MaxBiomass :
        /\ test_biomass_precursors_default_production(reaction_id)
        /\ report'[reaction_id].outcome # "error"
        /\ report'[reaction_id].returned =
              find_blocked_biomass_precursors(model, bounds)

\* The cases of the first test function are over; the second one starts with
\* its own annotation.
NextTestFunction ==
    /\ check = "test_biomass_precursors_default_production"
    /\ pc = "idle"
    /\ DOMAIN report = model.biomass_ids
    /\ result' = result @@ (check :> [annotation |-> annotation, report |-> report])
    /\ check' = "test_biomass_precursors_open_production"
    /\ annotation' = BiomassAnnotation("test_biomass_precursors_open_production")
    /\ report' = <<>>
    /\ UNCHANGED <<model, bounds, contexts, pc, run>>

\* A case of the complete-medium check: into the with block ...
OpenMediumEnter ==
    \E reaction_id \in 1..MaxBiomass : OpenProductionEnter(reaction_id)

\* ... and the call on the model with the bounds the block has set.
OpenMediumFinish ==
    /\ OpenProductionFinish
    /\ report'[run.reaction_id].outcome # "error"
    /\ report'[run.reaction_id].returned =
          find_blocked_biomass_precursors(model, bounds)

NextMedium ==
    \/ DefaultMediumCase
    \/ NextTestFunction
    \/ OpenMediumEnter
    \/ OpenMediumFinish

SpecMedium == InitMedium /\ [][NextMedium]_vars

(***************************************************************************)
(* memote/suite/tests/test_basic.py.  One check is run on the model; the   *)
(* support functions of memote.support.basic and memote.support.helpers    *)
(* return some of the model's metabolites or reactions.                    *)
(***************************************************************************)
PresenceAttribute ==
    [test_model_id_presence |-> "id",
     test_genes_presence |-> "genes",
     test_reactions_presence |-> "reactions",
     test_metabolites_presence |-> "metabolites",
     test_compartments_presence |-> "compartments"]

RatioChecks ==
    {"test_metabolites_formula_presence", "test_metabolites_charge_presence",
     "test_gene_protein_reaction_rule_presence",
     "test_find_pure_metabolic_reactions", "test_find_transport_reactions",
     "test_find_unique_metabolites"}

BasicChecks ==
    DOMAIN PresenceAttribute \cup RatioChecks \cup
        {"test_transport_reaction_presence", "test_ngam_presence",
         "test_metabolic_coverage", "test_enzyme_complex_presence"}

Attributes == {"id", "genes", "reactions", "metabolites", "compartments"}

\* The model has every attribute, or lacks the one the selected check tests
\* with hasattr.
AttributeChoices(name) ==
    {Attributes} \cup
        (IF name \in DOMAIN PresenceAttribute
         THEN {Attributes \ {PresenceAttribute[name]}} ELSE {})

ModelIds == {None, "", "m"}
Compartments == {"c", "e", "p"}

InitBasic ==
    /\ check \in BasicChecks
    /\ model \in {[attrs |-> attrs, id |-> id, genes |-> 1..g,
                   reactions |-> 1..r, metabolites |-> 1..m] :
                     attrs \in AttributeChoices(check), id \in ModelIds,
                     g \in 0..MaxEntities, r \in 0..MaxEntities,
                     m \in 0..MaxEntities}
    /\ bounds = <<>>
    /\ contexts = <<>>
    /\ annotation = [data |-> Unset, message |-> Unset, metric |-> Unset]
    /\ pc = "idle"
    /\ run = NoRun
    /\ report = <<>>
    /\ result = <<>>

BasicCase(name) ==
    /\ check = name
    /\ pc = "idle"
    /\ 0 \notin DOMAIN report

Finish(ann, outcome) ==
    /\ annotation' = ann
    /\ report' = report @@ (0 :> outcome)
    /\ UNCHANGED <<check, model, bounds, contexts, pc, run, result>>

\* bool(read_only_model.id)
bool(id) == id \notin {None, ""}

hasattr(m, attribute) == attribute \in m.attrs

test_model_id_presence ==
    /\ BasicCase("test_model_id_presence")
    /\ IF ~ hasattr(model, "id")
       THEN Finish(annotation, AssertBare(FALSE, "hasattr", Unset))
       ELSE Finish([annotation EXCEPT !.data = Some(model.id)],
                   AssertBare(bool(model.id), "threshold", model.id))

\* The body of the checks that record a list and assert on its length:
\* ann["data"], ann["message"], assert.
ListCheck(name, data, passes) ==
    LET message == Message(name, <<Cardinality(data), data>>)
    IN  Finish([annotation EXCEPT !.data = Some(data),
                                  !.message = Some(message)],
               AssertThat(passes, message, data))

\* A check that writes the data before it tests the attribute.
PresenceCheckWriteFirst(name, attribute, data, passes) ==
    IF ~ hasattr(model, attribute)
    THEN Finish([annotation EXCEPT !.data = Some(data)],
                AssertBare(FALSE, "hasattr", Unset))
    ELSE ListCheck(name, data, passes)

\* The same after assert hasattr(read_only_model, attribute).
PresenceCheck(name, attribute, data, passes) ==
    IF ~ hasattr(model, attribute)
    THEN Finish(annotation, AssertBare(FALSE, "hasattr", Unset))
    ELSE ListCheck(name, data, passes)

test_genes_presence ==
    /\ BasicCase("test_genes_presence")
    /\ PresenceCheck("test_genes_presence", "genes", model.genes,
                     Cardinality(model.genes) >= 1)

test_reactions_presence ==
    /\ BasicCase("test_reactions_presence")
    /\ PresenceCheck("test_reactions_presence", "reactions", model.reactions,
                     Cardinality(model.reactions) >= 1)

test_metabolites_presence ==
    /\ BasicCase("test_metabolites_presence")
    /\ PresenceCheck("test_metabolites_presence", "metabolites",
                     model.metabolites, Cardinality(model.metabolites) >= 1)

test_transport_reaction_presence ==
    /\ BasicCase("test_transport_reaction_presence")
    /\ \E data \in SUBSET model.reactions :
          ListCheck("test_transport_reaction_presence", data,
                    Cardinality(data) >= 1)

\* The body of the checks that also record a ratio:
\* ann["metric"] = len(ann["data"]) / len(<collection>), a true division
\* that raises ZeroDivisionError for an empty collection.
RatioCheck(name, data, total, passes) ==
    IF total = 0
    THEN Finish([annotation EXCEPT !.data = Some(data)],
                Errored("ZeroDivisionError", "metric", data))
    ELSE LET metric == <<Cardinality(data), total>>
             message == Message(name, <<Cardinality(data), metric, data>>)
         IN  Finish([annotation EXCEPT !.data = Some(data),
                                       !.metric = Some(metric),
                                       !.message = Some(message)],
                    AssertThat(passes, message, data))

test_metabolites_formula_presence ==
    /\ BasicCase("test_metabolites_formula_presence")
    /\ \E data \in SUBSET model.metabolites :
          RatioCheck("test_metabolites_formula_presence", data,
                     Cardinality(model.metabolites), Cardinality(data) = 0)

test_metabolites_charge_presence ==
    /\ BasicCase("test_metabolites_charge_presence")
    /\ \E data \in SUBSET model.metabolites :
          RatioCheck("test_metabolites_charge_presence", data,
                     Cardinality(model.metabolites), Cardinality(data) = 0)

test_gene_protein_reaction_rule_presence ==
    /\ BasicCase("test_gene_protein_reaction_rule_presence")
    /\ \E missing_gpr \in SUBSET model.reactions :
       \E exchange_rxns \in SUBSET model.reactions :
          RatioCheck("test_gene_protein_reaction_rule_presence",
                     missing_gpr \ exchange_rxns,
                     Cardinality(model.reactions),
                     Cardinality(missing_gpr \ exchange_rxns) = 0)

test_ngam_presence ==
    /\ BasicCase("test_ngam_presence")
    /\ \E data \in SUBSET model.reactions :
          ListCheck("test_ngam_presence", data, Cardinality(data) = 1)

\* basic.calculate_metabolic_coverage: the number of reactions divided by the
\* number of genes, undefined for a model without genes.
calculate_metabolic_coverage(m) ==
    IF Cardinality(m.genes) = 0 THEN Unset
    ELSE Some(<<Cardinality(m.reactions), Cardinality(m.genes)>>)

test_metabolic_coverage ==
    /\ BasicCase("test_metabolic_coverage")
    /\ LET metric == calculate_metabolic_coverage(model)
           message == Message("test_metabolic_coverage", <<metric>>)
       IN  Finish([annotation EXCEPT !.metric = Some(metric),
                                     !.message = Some(message)],
                  AssertThat(metric # Unset /\ metric[1][1] >= metric[1][2],
                             message, metric))

test_compartments_presence ==
    /\ BasicCase("test_compartments_presence")
    /\ \E data \in SUBSET Compartments :
          /\ Cardinality(data) <= Cardinality(model.metabolites)
          /\ PresenceCheck("test_compartments_presence", "compartments", data,
                           Cardinality(data) >= 3)

test_enzyme_complex_presence ==
    /\ BasicCase("test_enzyme_complex_presence")
    /\ \E data \in SUBSET model.reactions :
          ListCheck("test_enzyme_complex_presence", data, Cardinality(data) >= 1)

test_find_pure_metabolic_reactions ==
    /\ BasicCase("test_find_pure_metabolic_reactions")
    /\ \E data \in SUBSET model.reactions :
          RatioCheck("test_find_pure_metabolic_reactions", data,
                     Cardinality(model.reactions), Cardinality(data) >= 1)

test_find_transport_reactions ==
    /\ BasicCase("test_find_transport_reactions")
    /\ \E data \in SUBSET model.reactions :
          RatioCheck("test_find_transport_reactions", data,
                     Cardinality(model.reactions), Cardinality(data) >= 1)

test_find_unique_metabolites ==
    /\ BasicCase("test_find_unique_metabolites")
    /\ \E data \in SUBSET model.metabolites :
          /\ (data = {}) <=> (model.metabolites = {})
          /\ RatioCheck("test_find_unique_metabolites", data,
                        Cardinality(model.metabolites),
                        Cardinality(data) < Cardinality(model.metabolites))

NextBasic ==
    \/ test_model_id_presence
    \/ test_genes_presence
    \/ test_reactions_presence
    \/ test_metabolites_presence
    \/ test_transport_reaction_presence
    \/ test_metabolites_formula_presence
    \/ test_metabolites_charge_presence
    \/ test_gene_protein_reaction_rule_presence
    \/ test_ngam_presence
    \/ test_metabolic_coverage
    \/ test_compartments_presence
    \/ test_enzyme_complex_presence
    \/ test_find_pure_metabolic_reactions
    \/ test_find_transport_reactions
    \/ test_find_unique_metabolites

SpecBasic == InitBasic /\ [][NextBasic]_vars

(***************************************************************************)
(* Properties of the basic checks.                                         *)
(***************************************************************************)
\* C2: when the final assertion of a check fails, the annotation of the
\* check already holds the data and the message, and the AssertionError
\* carries that message.
C2_FailureCarriesMessage ==
    \A c \in DOMAIN report :
        (report[c].outcome = "failed" /\ report[c].at = "threshold") =>
            /\ annotation.data # Unset \/ annotation.metric # Unset
            /\ annotation.message # Unset
            /\ report[c].message = annotation.message

\* C2 holds of every check of test_basic.py but test_model_id_presence.
C2_ExceptModelId ==
    check # "test_model_id_presence" => C2_FailureCarriesMessage

\* C3: no check of test_basic.py ends by a division fault; a check that
\* records a ratio has a metric once it has run.
C3_NoDivisionFault ==
    \A c \in DOMAIN report :
        /\ report[c].exception # "ZeroDivisionError"
        /\ check \in RatioChecks \cup {"test_metabolic_coverage"} =>
              annotation.metric # Unset

\* C13: a presence check run on a model that lacks the attribute it tests
\* fails at the hasattr assertion with nothing written to its annotation; a
\* failure of its threshold assertion happens only on a model that has the
\* attribute and only after the data has been written, so the annotation
\* tells the two failures apart.
C13_MissingAttributeDistinct ==
    \A c \in DOMAIN report :
        check \in DOMAIN PresenceAttribute =>
            LET present == hasattr(model, PresenceAttribute[check])
                blank == [data |-> Unset, message |-> Unset, metric |-> Unset]
            IN  /\ ~ present =>
                      /\ report[c].outcome = "failed"
                      /\ report[c].at = "hasattr"
                      /\ annotation = blank
                /\ report[c].at = "hasattr" => ~ present
                /\ (report[c].outcome = "failed" /\ report[c].at = "threshold") =>
                      /\ present
                      /\ annotation.data # Unset

\* test_compartments_presence has failed on a model without the attribute
\* compartments.
C13_Witness ==
    /\ check = "test_compartments_presence"
    /\ 0 \in DOMAIN report
    /\ ~ hasattr(model, "compartments")
    /\ report[0].at = "hasattr"
    /\ annotation.data = Unset

(***************************************************************************)
(* Properties of the biomass checks.                                       *)
(***************************************************************************)
ParamChecks == BiomassChecks \ {"test_biomass_presence"}

Wide == <<WideLower, WideUpper>>

\* C1: however test_biomass_precursors_open_production ends (its assertion
\* passes, its assertion fails, or find_blocked_biomass_precursors raises in
\* the with block), every exchange has afterwards the bounds it had before
\* the check and no undo history is left open; inside the block every
\* exchange has the bounds (-1000, 1000).
C1_BoundsRestored ==
    check = "test_biomass_precursors_open_production" =>
        /\ pc = "idle" =>
              /\ contexts = <<>>
              /\ run # NoRun => bounds = run.entry_bounds
        /\ pc = "scope" =>
              /\ \A exchange \in Exchanges : bounds[exchange] = Wide
              /\ run.reaction_id \notin DOMAIN report

\* The check has ended by an exception raised in the with block, on a model
\* whose exchanges were not all wide open, and the bounds are back.
C1_Witness ==
    /\ check = "test_biomass_precursors_open_production"
    /\ pc = "idle"
    /\ run # NoRun
    /\ run.reaction_id \in DOMAIN report
    /\ report[run.reaction_id].outcome = "error"
    /\ \E exchange \in Exchanges : run.entry_bounds[exchange] # Wide
    /\ bounds = run.entry_bounds

\* C4 as stated: test_fast_growth_default passes only if the growth rate g
\* satisfies 0 < g <= 10.3972.
C4_GrowthInRange ==
    check = "test_fast_growth_default" =>
        \A reaction_id \in DOMAIN report :
            report[reaction_id].outcome = "passed" <=>
                (0 < report[reaction_id].returned
                    /\ report[reaction_id].returned <= GrowthCap)

\* C4, amended: test_fast_growth_default passes iff g <= 10.3972, so a rate
\* of 0 or below passes it; the lower bound is the separate check
\* test_biomass_default_production, which passes iff g > 0.
C4_GrowthChecks ==
    \A reaction_id \in DOMAIN report :
        /\ check = "test_fast_growth_default" =>
              /\ report[reaction_id].outcome = "passed" <=>
                    report[reaction_id].returned <= GrowthCap
              /\ report[reaction_id].outcome = "failed" <=>
                    report[reaction_id].returned > GrowthCap
        /\ check = "test_biomass_default_production" =>
              /\ report[reaction_id].outcome = "passed" <=>
                    report[reaction_id].returned > 0
              /\ report[reaction_id].outcome = "failed" <=>
                    report[reaction_id].returned <= 0

\* test_fast_growth_default has passed for a reaction that does not grow.
C4_Witness ==
    /\ check = "test_fast_growth_default"
    /\ \E reaction_id \in DOMAIN report :
          /\ report[reaction_id].returned <= 0
          /\ report[reaction_id].outcome = "passed"
          /\ annotation.data[reaction_id] = report[reaction_id].returned

\* C5: test_biomass_consistency passes iff the summed weight w satisfies
\* |w - 1.0| <= 1e-3.
C5_AbsoluteTolerance ==
    check = "test_biomass_consistency" =>
        \A reaction_id \in DOMAIN report :
            report[reaction_id].outcome = "passed" <=>
                Abs(report[reaction_id].returned - One) <= Atol

\* The entries a parametrized check has written: one per reaction id whose
\* case got past its support function, each the value and the message of
\* that case.
Recorded == {reaction_id \in DOMAIN report : report[reaction_id].outcome # "error"}

C6_Entries ==
    check \in ParamChecks =>
        /\ DOMAIN annotation.data = Recorded
        /\ DOMAIN annotation.message = Recorded
        /\ \A reaction_id \in Recorded :
              /\ annotation.data[reaction_id] = report[reaction_id].returned
              /\ annotation.message[reaction_id] =
                    Message(check, <<reaction_id, report[reaction_id].returned>>)
              /\ report[reaction_id].outcome = "failed" =>
                    report[reaction_id].message =
                        Some(annotation.message[reaction_id])
        /\ pc = "idle" =>
              \A reaction_id \in model.biomass_ids \ DOMAIN report :
                  ENABLED StartCase(reaction_id)

C6_Frame ==
    check \in ParamChecks =>
        /\ \A reaction_id \in DOMAIN annotation.data :
              /\ reaction_id \in DOMAIN annotation'.data
              /\ annotation'.data[reaction_id] = annotation.data[reaction_id]
        /\ \A reaction_id \in DOMAIN annotation.message :
              /\ reaction_id \in DOMAIN annotation'.message
              /\ annotation'.message[reaction_id] = annotation.message[reaction_id]
        /\ \A reaction_id \in DOMAIN report :
              /\ reaction_id \in DOMAIN report'
              /\ report'[reaction_id] = report[reaction_id]

Contains(s, tok) ==
    \E i \in 1..(Len(s) - Len(tok) + 1) :
        \A k \in 1..Len(tok) : s[i + k - 1] = tok[k]

Called(name) == name \in DOMAIN result

\* C7: find_abc_tag_transporter returns exactly the ABC transport reactions
\* (transport reactions that also convert ATP to ADP) whose identifier does
\* not contain the characters abc.
C7_AbcTagExact ==
    Called("find_abc_tag_transporter") =>
        result["find_abc_tag_transporter"] =
            {rxn \in model.reactions :
                /\ rxn \in find_transport_reactions(model)
                /\ rxn \in find_atp_adp_converting_reactions(model)
                /\ ~ Contains(rxn.id, <<"a", "b", "c">>)}

\* C8: find_reaction_tag_transporter returns exactly the transport reactions
\* not converting ATP to ADP whose identifier does not contain a t, and its
\* result and that of find_abc_tag_transporter are disjoint sets of transport
\* reactions.
C8_TransportTagExact ==
    /\ Called("find_reaction_tag_transporter") =>
          result["find_reaction_tag_transporter"] =
              {rxn \in model.reactions :
                  /\ rxn \in find_transport_reactions(model)
                  /\ rxn \notin find_atp_adp_converting_reactions(model)
                  /\ ~ Contains(rxn.id, <<"t">>)}
    /\ (Called("find_reaction_tag_transporter") /\ Called("find_abc_tag_transporter")) =>
          /\ result["find_reaction_tag_transporter"]
                \cap result["find_abc_tag_transporter"] = {}
          /\ result["find_reaction_tag_transporter"]
                \cup result["find_abc_tag_transporter"]
                    \subseteq find_transport_reactions(model)

\* The part of C8 that does not depend on the form of the identifier.
C8_Disjoint ==
    (Called("find_reaction_tag_transporter") /\ Called("find_abc_tag_transporter")) =>
        /\ result["find_reaction_tag_transporter"]
              \cap result["find_abc_tag_transporter"] = {}
        /\ result["find_reaction_tag_transporter"]
              \cup result["find_abc_tag_transporter"]
                  \subseteq find_transport_reactions(model)

\* An uppercase character of s that is none of D, L, R, S, E, Z and not part
\* of an occurrence of ACP.
InAcp(s, i) ==
    \E j \in {i - 2, i - 1, i} :
        /\ j >= 1
        /\ j + 2 <= Len(s)
        /\ <<s[j], s[j + 1], s[j + 2]>> = <<"A", "C", "P">>

HasForeignUpperCase(s) ==
    \E i \in 1..Len(s) :
        /\ s[i] \in UpperCase \ {"D", "L", "R", "S", "E", "Z"}
        /\ ~ InAcp(s, i)

\* C9: find_upper_case_mets returns exactly the metabolites whose identifier
\* contains an uppercase character outside the whitelist D, L, R, S, E, Z,
\* ACP: all-lowercase identifiers are not returned.
C9_UpperCaseExact ==
    Called("find_upper_case_mets") =>
        result["find_upper_case_mets"] =
            {met \in model.metabolites : HasForeignUpperCase(met.id)}

HasPrefix3(s, a, b, c) == Len(s) >= 3 /\ SubSeq(s, 1, 3) = <<a, b, c>>

\* C10: every reaction of model.exchanges is judged by exactly one prefix
\* rule: touching the extracellular compartment, it is returned by
\* find_untagged_exchange_rxns iff its id does not start with EX_ and never by
\* find_untagged_demand_rxns; otherwise it is returned by
\* find_untagged_demand_rxns iff its id does not start with DM_ and never by
\* find_untagged_exchange_rxns.  No reaction is returned by both.
C10_OnePrefixRule ==
    /\ Called("find_untagged_exchange_rxns") =>
          /\ result["find_untagged_exchange_rxns"] \subseteq exchanges(model)
          /\ \A rxn \in exchanges(model) :
                rxn \in result["find_untagged_exchange_rxns"] <=>
                    ("e" \in rxn.compartments /\ ~ HasPrefix3(rxn.id, "E", "X", "_"))
    /\ Called("find_untagged_demand_rxns") =>
          /\ result["find_untagged_demand_rxns"] \subseteq exchanges(model)
          /\ \A rxn \in exchanges(model) :
                rxn \in result["find_untagged_demand_rxns"] <=>
                    ("e" \notin rxn.compartments /\ ~ HasPrefix3(rxn.id, "D", "M", "_"))
    /\ (Called("find_untagged_exchange_rxns") /\ Called("find_untagged_demand_rxns")) =>
          result["find_untagged_exchange_rxns"]
              \cap result["find_untagged_demand_rxns"] = {}

\* Both functions were called on an extracellular boundary reaction named
\* like a demand: the exchange rule flags it, the demand rule does not.
C10_Witness ==
    /\ Called("find_untagged_exchange_rxns")
    /\ Called("find_untagged_demand_rxns")
    /\ \E rxn \in result["find_untagged_exchange_rxns"] :
          /\ rxn.compartments = {"e"}
          /\ HasPrefix3(rxn.id, "D", "M", "_")
          /\ rxn \notin result["find_untagged_demand_rxns"]

(***************************************************************************)
(* Properties of the compartment tag functions.                            *)
(***************************************************************************)
InList(x, list) == \E i \in 1..Len(list) : list[i] = x

MistaggedDone == Called("find_mistagged_reaction_compartment")

MistaggedResult == result["find_mistagged_reaction_compartment"]

NonTransport == model.reactions \ find_transport_reactions(model)

\* C11: find_mistagged_reaction_compartment ends by returning its list, and
\* every non-transport reaction whose identifier does not match the
\* convention pattern (its entry of the reaction-match map is None) is an
\* element of the returned list.
C11_UnmatchedIncluded ==
    MistaggedDone =>
        /\ MistaggedResult.exception = None
        /\ \A rxn \in NonTransport :
              build_reaction_pattern_map(model)[rxn] = Unset =>
                  InList(rxn, MistaggedResult.returned)

\* The part of C11 that holds: an unmatched identifier never ends the call;
\* the loop goes on to the remaining reactions and the call returns.
C11_LoopGoesOn ==
    /\ pc = "loop" => ENABLED (MistaggedStep \/ MistaggedReturn)
    /\ MistaggedDone => MistaggedResult.exception = None

C12_SuffixFunctionsExact ==
    \A suffix \in DOMAIN COMPARTMENT_SUFFIX :
        LET eligible ==
                {rxn \in model.reactions \
                        (find_transport_reactions(model) \cup exchanges(model)) :
                    ~ Contains(lower(rxn.id), <<"b", "i", "o", "m", "a", "s", "s">>)}
            tagged(rxn) == Contains(rxn.id, COMPARTMENT_SUFFIX[suffix])
        IN  /\ Called("find_rxn_id_compartment_suffix") =>
                  result["find_rxn_id_compartment_suffix"][suffix] =
                      Returned({rxn \in eligible :
                                  suffix \in rxn.compartments /\ ~ tagged(rxn)})
            /\ Called("find_rxn_id_suffix_compartment") =>
                  result["find_rxn_id_suffix_compartment"][suffix] =
                      Returned({rxn \in eligible :
                                  tagged(rxn) /\ suffix \notin rxn.compartments})

(***************************************************************************)
(* Properties of the two precursor checks.                                 *)
(***************************************************************************)
DefaultBlocked == result["test_biomass_precursors_default_production"].annotation.data

\* C14: for every biomass reaction, the blocked precursors recorded by the
\* complete-medium check are among the blocked precursors recorded by the
\* default-medium check on the same model.
C14_OpenSubsetOfDefault ==
    check = "test_biomass_precursors_open_production" =>
        \A reaction_id \in DOMAIN annotation.data :
            annotation.data[reaction_id] \subseteq DefaultBlocked[reaction_id]

\* The part of C14 that holds: when no exchange bound of the model lies
\* outside (-1000, 1000), the complete medium blocks no precursor that the
\* default medium does not block.
C14_SubsetWhenWidened ==
    (/\ check = "test_biomass_precursors_open_production"
     /\ pc = "idle"
     /\ \A k \in Exchanges : WideLower <= bounds[k][1] /\ bounds[k][2] <= WideUpper) =>
        \A reaction_id \in DOMAIN annotation.data :
            annotation.data[reaction_id] \subseteq DefaultBlocked[reaction_id]

====
